---------------------------- MODULE Spec2Model ----------------------------
(***************************************************************************)
(* A model of kube_custom_resource:                                        *)
(*   - runtime_utils.Mapper (fetch, save_instance, save_instance_status,   *)
(*     ensure_finalizer, remove_finalizer) run by two writers against one   *)
(*     object held by a Kubernetes API server;                              *)
(*   - the schema post-processing of schema.py (resolve_refs,              *)
(*     remove_fields, BaseModel.model_json_schema, StructuralUnion).        *)
(***************************************************************************)
EXTENDS Integers, Sequences, FiniteSets, TLC

VARIABLES server, inst, call, model, pc, heap, result, err

vars == <<server, inst, call, model, pc, heap, result, err>>

mapperVars == <<server, inst, call>>

schemaVars == <<model, pc, heap, result, err>>

-----------------------------------------------------------------------------
(* Bounds and small input sets                                             *)

\* The resource versions the API server hands out are 1..MaxRV.
MaxRV == 3

Writers == {"w1", "w2"}

Finalizers == {"f"}

StatusValues == {"s0", "s1"}

\* The finalizer lists the stored object may start with.  The API server
\* does not deduplicate metadata.finalizers, so lists with a repeated entry
\* are among them.
InitialFinalizers ==
    { <<>>, <<"f">>, <<"g">>, <<"g", "f">>, <<"f", "f">>, <<"f", "g", "f">> }

Range(s) == { s[i] : i \in DOMAIN s }

Count(x, s) == Cardinality({ i \in DOMAIN s : s[i] = x })

-----------------------------------------------------------------------------
(* The API server and the easykube resource (external to the repository)   *)

\* The object as the API returns it.
ServerData(srv) ==
    [ resourceVersion |-> srv.resourceVersion,
      finalizers      |-> srv.finalizers,
      status          |-> srv.status ]

\* resource.fetch: 404 when the object does not exist, otherwise the object,
\* or a failure of the server or of the authorisation.
FetchResponses(srv) ==
    IF srv.exists
    THEN { [ code |-> 200, data |-> ServerData(srv) ],
           [ code |-> 403, data |-> ServerData(srv) ],
           [ code |-> 500, data |-> ServerData(srv) ] }
    ELSE { [ code |-> 404, data |-> ServerData(srv) ],
           [ code |-> 500, data |-> ServerData(srv) ] }

\* The object after an accepted replace.  The main resource takes the
\* metadata and ignores the status; the status subresource takes the status
\* alone.  Every accepted replace gets a new resource version.
Replaced(srv, subresource, body) ==
    IF subresource = "status"
    THEN [ srv EXCEPT !.resourceVersion = @ + 1, !.status = body.status ]
    ELSE [ srv EXCEPT !.resourceVersion = @ + 1, !.finalizers = body.finalizers ]

\* resource.replace: optimistic concurrency on metadata.resourceVersion.  A
\* body that carries a resource version other than the stored one is
\* rejected with 409; a body that carries none (0) is an unconditional
\* update.  Any request may also fail with 500, changing nothing.
ReplaceResponses(srv, subresource, body) ==
    { [ code |-> 500, server |-> srv ] } \cup
    ( IF ~srv.exists
      THEN { [ code |-> 404, server |-> srv ] }
      ELSE IF body.resourceVersion # 0 /\ body.resourceVersion # srv.resourceVersion
      THEN { [ code |-> 409, server |-> srv ] }
      ELSE IF srv.resourceVersion < MaxRV
      THEN { [ code |-> 200, server |-> Replaced(srv, subresource, body) ] }
      ELSE {} )

-----------------------------------------------------------------------------
(* Mapper                                                                  *)

\* The caller's variable when it holds no instance (fetch returned None, or
\* nothing was fetched yet).
None == [ held |-> FALSE, resource_version |-> 0, finalizers |-> <<>>,
          status |-> "s0" ]

\* self._model.model_validate(data): the instance built from the API data
\* (metadata.resourceVersion becomes metadata.resource_version).
ModelValidate(data) ==
    [ held             |-> TRUE,
      resource_version |-> data.resourceVersion,
      finalizers       |-> data.finalizers,
      status           |-> data.status ]

\* What fetch does with the response: "returned" an instance, returned
\* "None", or "raised" the ApiError.
FetchOutcomeAnyErrorIsNone(code) ==
    IF code = 200 THEN "returned" ELSE "None"

FetchOutcome(code) ==
    IF code = 200 THEN "returned"
    ELSE IF code = 404 THEN "None"
    ELSE "raised"

\* instance.model_dump(exclude_defaults = True), by alias: the body of a
\* replace of the main resource.
ModelDump(instance) ==
    [ resourceVersion |-> instance.resource_version,
      finalizers      |-> instance.finalizers,
      status          |-> instance.status ]

\* The body of the replace that save_instance_status issues.
StatusBodyWithoutVersion(instance) ==
    [ resourceVersion |-> 0, status |-> instance.status ]

StatusBody(instance) ==
    [ resourceVersion |-> instance.resource_version,
      status          |-> instance.status ]

\* instance.metadata.resource_version = data["metadata"]["resourceVersion"]
StoreResourceVersionSkipped(instance, data) == instance

StoreResourceVersion(instance, data) ==
    [ instance EXCEPT !.resource_version = data.resourceVersion ]

\* finalizer not in instance.metadata.finalizers
FinalizerMissingAlways(instance, finalizer) == TRUE

FinalizerMissing(instance, finalizer) ==
    finalizer \notin Range(instance.finalizers)

\* instance.metadata.finalizers.index(finalizer): the first position that
\* holds the finalizer, 0 standing for the ValueError.
Index(s, x) ==
    IF x \in Range(s)
    THEN CHOOSE i \in DOMAIN s : s[i] = x /\ \A j \in 1..(i - 1) : s[j] # x
    ELSE 0

\* instance.metadata.finalizers.pop(idx)
Pop(s, idx) == [ i \in 1..(Len(s) - 1) |-> IF i < idx THEN s[i] ELSE s[i + 1] ]

\* The record kept of the latest Mapper call: the writer, the operation and
\* its argument, the resource version in the body of the replace it issued
\* and the status code the API answered with (both 0 when it issued no
\* request), and how the call ended.  tick flips at every call.
Record(w, op, arg, sent, code, outcome) ==
    [ w |-> w, op |-> op, arg |-> arg, sent |-> sent, code |-> code,
      outcome |-> outcome, tick |-> 1 - call.tick ]

\* resource.replace on the main resource for the instance as it now is in
\* memory, then the bookkeeping of save_instance.
Save(w, instance, op, arg) ==
    \E resp \in ReplaceResponses(server, "", ModelDump(instance)) :
        /\ server' = resp.server
        /\ inst' = [ inst EXCEPT ![w] =
                       IF resp.code = 200
                       THEN StoreResourceVersion(instance, ServerData(resp.server))
                       ELSE instance ]
        /\ call' =
                       Record(w, op, arg, ModelDump(instance).resourceVersion, resp.code,
                              IF resp.code = 200 THEN "returned" ELSE "raised")

Fetch(w) ==
    \E resp \in FetchResponses(server) :
        /\ inst' = [ inst EXCEPT ![w] =
                       IF FetchOutcome(resp.code) = "returned"
                       THEN ModelValidate(resp.data)
                       ELSE IF FetchOutcome(resp.code) = "None" THEN None
                       ELSE @ ]
        /\ call' =
                       Record(w, "fetch", "", 0, resp.code, FetchOutcome(resp.code))
        /\ UNCHANGED server

SaveInstance(w) ==
    /\ inst[w].held
    /\ Save(w, inst[w], "save_instance", "")

SaveInstanceStatus(w) ==
    /\ inst[w].held
    /\ \E resp \in ReplaceResponses(server, "status", StatusBody(inst[w])) :
        /\ server' = resp.server
        /\ inst' = [ inst EXCEPT ![w] =
                       IF resp.code = 200
                       THEN StoreResourceVersion(@, ServerData(resp.server))
                       ELSE @ ]
        /\ call' =
                       Record(w, "save_instance_status", "",
                              StatusBody(inst[w]).resourceVersion, resp.code,
                              IF resp.code = 200 THEN "returned" ELSE "raised")

EnsureFinalizer(w, finalizer) ==
    /\ inst[w].held
    /\ IF FinalizerMissing(inst[w], finalizer)
       THEN Save(w, [ inst[w] EXCEPT !.finalizers = Append(@, finalizer) ],
                 "ensure_finalizer", finalizer)
       ELSE /\ call' =
                           Record(w, "ensure_finalizer", finalizer, 0, 0, "returned")
            /\ UNCHANGED <<server, inst>>

RemoveFinalizer(w, finalizer) ==
    /\ inst[w].held
    /\ IF Index(inst[w].finalizers, finalizer) = 0
       THEN /\ call' =
                           Record(w, "remove_finalizer", finalizer, 0, 0, "returned")
            /\ UNCHANGED <<server, inst>>
       ELSE Save(w, [ inst[w] EXCEPT !.finalizers =
                        Pop(@, Index(inst[w].finalizers, finalizer)) ],
                 "remove_finalizer", finalizer)

\* The reconcile function sets instance.status before it saves the status.
SetStatus(w, s) ==
    /\ inst[w].held
    /\ inst[w].status # s
    /\ inst' = [ inst EXCEPT ![w].status = s ]
    /\ UNCHANGED <<server, call>>

\* Another client deletes the object; the API server removes it once no
\* finalizer is left on it.
Delete ==
    /\ server.exists
    /\ server.finalizers = <<>>
    /\ server' = [ server EXCEPT !.exists = FALSE ]
    /\ UNCHANGED <<inst, call>>

\* No schema is being generated.
NoModel == [ generated |-> [ kind |-> "lit", lit |-> "null" ], recursive |-> FALSE ]

Init ==
    /\ model = NoModel
    /\ pc = "idle"
    /\ heap = <<>>
    /\ result = [ ref |-> 0, lit |-> "null" ]
    /\ err = ""
    /\ \E fs \in InitialFinalizers :
         server = [ exists |-> TRUE, resourceVersion |-> 1, finalizers |-> fs,
                    status |-> "s0" ]
    /\ inst = [ w \in Writers |-> None ]
    /\ call = [ w |-> "", op |-> "", arg |-> "", sent |-> 0, code |-> 0,
                outcome |-> "", tick |-> 0 ]

Call(w) ==
    /\ \/ Fetch(w)
       \/ SaveInstance(w)
       \/ SaveInstanceStatus(w)
       \/ \E f \in Finalizers : EnsureFinalizer(w, f)
       \/ \E f \in Finalizers : RemoveFinalizer(w, f)
       \/ \E s \in StatusValues : SetStatus(w, s)
    /\ UNCHANGED schemaVars

Next ==
    \/ \E w \in Writers : Call(w)
    \/ Delete /\ UNCHANGED schemaVars

\* Two writers and a deleting client, in any interleaving.
Spec == Init /\ [][Next]_vars

NextSingle == Call("w1")

\* One writer, and nobody else touching the object.
SpecSingle == Init /\ [][NextSingle]_vars

-----------------------------------------------------------------------------
(* JSON values                                                             *)
(*                                                                         *)
(* A schema is a Python object graph: dicts and lists are mutable objects  *)
(* that several parents may share.  heap is the sequence of the objects    *)
(* allocated so far; a value is either a reference to the object at an     *)
(* index of the heap or a literal (a string, or true, false, null written  *)
(* as strings).  A dict keeps its items in insertion order; the items of a *)
(* list have the key "".                                                   *)

Lit(s) == [ ref |-> 0, lit |-> s ]

Ref(n) == [ ref |-> n, lit |-> "" ]

IsDict(h, v) == v.ref # 0 /\ h[v.ref].kind = "dict"

IsList(h, v) == v.ref # 0 /\ h[v.ref].kind = "list"

Keys(node) == { node.items[i].key : i \in DOMAIN node.items }

\* schema[key]
Get(node, key) ==
    node.items[CHOOSE i \in DOMAIN node.items : node.items[i].key = key].val

RECURSIVE ItemsWithout(_, _)
ItemsWithout(items, key) ==
    IF items = <<>> THEN <<>>
    ELSE IF Head(items).key = key THEN ItemsWithout(Tail(items), key)
    ELSE <<Head(items)>> \o ItemsWithout(Tail(items), key)

\* schema.pop(key, None): the dict without the key, the other items in order.
DictPop(node, key) == [ kind |-> node.kind, items |-> ItemsWithout(node.items, key) ]

\* schema[key] = val: a key already there keeps its place.
DictSet(node, key, val) ==
    IF key \in Keys(node)
    THEN [ kind  |-> node.kind,
           items |-> [ i \in DOMAIN node.items |->
                         IF node.items[i].key = key THEN [ key |-> key, val |-> val ]
                         ELSE node.items[i] ] ]
    ELSE [ kind |-> node.kind, items |-> Append(node.items, [ key |-> key, val |-> val ]) ]

\* schema.update(other): the items of other, in order, set on schema.  The
\* values are shared with other, not copied.
RECURSIVE DictUpdateFrom(_, _, _)
DictUpdateFrom(node, other, i) ==
    IF i > Len(other.items) THEN node
    ELSE DictUpdateFrom(DictSet(node, other.items[i].key, other.items[i].val),
                        other, i + 1)

DictUpdate(node, other) == DictUpdateFrom(node, other, 1)

\* The element of a set of one element.  { F(r) : r \in { e } } gives the
\* result r of a call e a name, so that F uses the one result.
Only(S) == CHOOSE x \in S : TRUE

\* A JSON document as a tree, before it is allocated on the heap.
JDict(items) == [ kind |-> "dict", items |-> items ]

JList(elems) ==
    [ kind |-> "list", items |-> [ i \in DOMAIN elems |-> <<"", elems[i]>> ] ]

JLit(s) == [ kind |-> "lit", lit |-> s ]

\* The objects of a freshly built document: every dict and list of the tree
\* becomes one object of the heap.
RECURSIVE Load(_, _), LoadItems(_, _, _, _)
Load(h, tree) ==
    IF tree.kind = "lit" THEN [ heap |-> h, val |-> Lit(tree.lit) ]
    ELSE Only({ [ heap |-> Append(r.heap, [ kind |-> tree.kind, items |-> r.items ]),
                  val  |-> Ref(Len(r.heap) + 1) ] :
                r \in { LoadItems(h, tree.items, 1, <<>>) } })

LoadItems(h, items, i, acc) ==
    IF i > Len(items) THEN [ heap |-> h, items |-> acc ]
    ELSE Only({ LoadItems(r.heap, items, i + 1,
                          Append(acc, [ key |-> items[i][1], val |-> r.val ])) :
                r \in { Load(h, items[i][2]) } })

\* The objects a value reaches, itself included.
Children(h, n) == { h[n].items[i].val.ref : i \in DOMAIN h[n].items } \ {0}

RECURSIVE Closure(_, _)
Closure(h, S) ==
    LET N == S \cup UNION { Children(h, n) : n \in S }
    IN  IF N = S THEN S ELSE Closure(h, N)

Reachable(h, v) == IF v.ref = 0 THEN {} ELSE Closure(h, {v.ref})


-----------------------------------------------------------------------------
(* schema.py: resolve_refs, remove_fields, model_json_schema, unions       *)

\* The depth of Python calls at which the interpreter raises RecursionError.
RecursionLimit == 24

\* ref.removeprefix("#/$defs/")
RemovePrefix(ref) ==
    CASE ref = "#/$defs/D1" -> "D1"
      [] ref = "#/$defs/D2" -> "D2"
      [] OTHER -> ref

Ok(h) == [ heap |-> h, err |-> "" ]

Raise(h, e) == [ heap |-> h, err |-> e ]

\* len(schema["allOf"]) == 1, for the list that allOf is in a schema.
HasSingleAllOf(h, schema) ==
    /\ "allOf" \in Keys(schema)
    /\ IsList(h, Get(schema, "allOf"))
    /\ Len(h[Get(schema, "allOf").ref].items) = 1

\* The branch of resolve_refs that a dict takes.
Branch(h, schema) ==
    IF HasSingleAllOf(h, schema) THEN "allOf"
    ELSE IF "$ref" \in Keys(schema) THEN "$ref"
    ELSE "values"

\* resolve_refs(schema, definitions) called at the given depth of the Python
\* stack: the heap it leaves, and the exception it raises if any.
RECURSIVE ResolveRefs(_, _, _, _), ResolveEach(_, _, _, _, _)
ResolveRefs(h, schema, definitions, depth) ==
    IF depth > RecursionLimit THEN Raise(h, "RecursionError")
    ELSE IF IsDict(h, schema) THEN
        CASE Branch(h, h[schema.ref]) = "allOf" ->
               LET items == h[Get(h[schema.ref], "allOf").ref].items[1].val
               IN  Only({ IF r.err # "" THEN r
                          ELSE IF ~IsDict(r.heap, items) THEN Raise(r.heap, "TypeError")
                          ELSE Ok([ r.heap EXCEPT ![schema.ref] =
                                      DictUpdate(r.heap[schema.ref], r.heap[items.ref]) ]) :
                          r \in { ResolveRefs([ h EXCEPT ![schema.ref] =
                                                  DictPop(h[schema.ref], "allOf") ],
                                              items, definitions, depth + 1) } })
          [] Branch(h, h[schema.ref]) = "$ref" ->
               LET ref == RemovePrefix(Get(h[schema.ref], "$ref").lit)
                   h1  == [ h EXCEPT ![schema.ref] = DictPop(h[schema.ref], "$ref") ]
               IN  IF ref \notin Keys(h[definitions.ref]) THEN Raise(h1, "KeyError")
                   ELSE LET referenced == Get(h[definitions.ref], ref)
                        IN  Only({ IF r.err # "" THEN r
                                   ELSE IF ~IsDict(r.heap, referenced)
                                   THEN Raise(r.heap, "TypeError")
                                   ELSE Ok([ r.heap EXCEPT ![schema.ref] =
                                               DictUpdate(r.heap[schema.ref],
                                                          r.heap[referenced.ref]) ]) :
                                   r \in { ResolveRefs(h1, referenced, definitions,
                                                       depth + 1) } })
          [] OTHER -> ResolveEach(h, schema.ref, 1, definitions, depth)
    ELSE IF IsList(h, schema) THEN ResolveEach(h, schema.ref, 1, definitions, depth)
    ELSE Ok(h)

\* for value in schema.values(): resolve_refs(value, definitions), from the
\* i-th value on, in the frame at the given depth.
ResolveEach(h, n, i, definitions, depth) ==
    IF i > Len(h[n].items) THEN Ok(h)
    ELSE Only({ IF r.err # "" THEN r
                ELSE ResolveEach(r.heap, n, i + 1, definitions, depth) :
                r \in { ResolveRefs(h, h[n].items[i].val, definitions, depth + 1) } })

\* for field in fields: schema.pop(field, None)
RECURSIVE PopFields(_, _)
PopFields(node, fields) ==
    IF fields = <<>> THEN node
    ELSE PopFields(DictPop(node, Head(fields)), Tail(fields))

\* The test that guards the removal in remove_fields.
IsType(node) == "type" \in Keys(node)

\* remove_fields(schema, *fields) called at the given depth.
RECURSIVE RemoveFields(_, _, _, _), RemoveEach(_, _, _, _, _)
RemoveFields(h, schema, fields, depth) ==
    IF depth > RecursionLimit THEN Raise(h, "RecursionError")
    ELSE IF IsDict(h, schema) THEN
        RemoveEach(IF IsType(h[schema.ref])
                   THEN [ h EXCEPT ![schema.ref] = PopFields(h[schema.ref], fields) ]
                   ELSE h,
                   schema.ref, 1, fields, depth)
    ELSE IF IsList(h, schema) THEN RemoveEach(h, schema.ref, 1, fields, depth)
    ELSE Ok(h)

\* (remove_fields(schema, *fields) in place of remove_fields(item, *fields))
RemoveEachOnSchema(h, n, i, fields, depth) ==
    IF i > Len(h[n].items) THEN Ok(h)
    ELSE Only({ IF r.err # "" THEN r
                ELSE RemoveEach(r.heap, n, i + 1, fields, depth) :
                r \in { RemoveFields(h, Ref(n), fields, depth + 1) } })

\* for item in schema.values(): remove_fields(item, *fields), from the i-th
\* value on, in the frame at the given depth.
RemoveEach(h, n, i, fields, depth) ==
    IF i > Len(h[n].items) THEN Ok(h)
    ELSE Only({ IF r.err # "" THEN r
                ELSE RemoveEach(r.heap, n, i + 1, fields, depth) :
                r \in { RemoveFields(h, h[n].items[i].val, fields, depth + 1) } })

\* copy.deepcopy(value): fresh objects for all the objects the value
\* reaches, shared objects staying shared among the copies.
DeepCopy(h, v) ==
    LET R       == Reachable(h, v)
        rank(n) == Cardinality({ m \in R : m <= n })
        new(x)  == IF x.ref = 0 THEN x ELSE Ref(Len(h) + rank(x.ref))
        copy(n) == [ kind  |-> h[n].kind,
                     items |-> [ i \in DOMAIN h[n].items |->
                                   [ key |-> h[n].items[i].key,
                                     val |-> new(h[n].items[i].val) ] ] ]
    IN  [ heap |-> h \o [ k \in 1..Cardinality(R) |->
                            copy(CHOOSE n \in R : rank(n) = k) ],
          val  |-> new(v) ]

\* BaseModel.model_json_schema(include_defaults = ...), for the model whose
\* generated schema (super().model_json_schema()) is the given document.
ModelJsonSchema(h, generated, include_defaults) ==
    Only({ Only({ Only({ [ heap |-> r2.heap, val |-> l.val, err |-> r2.err ] :
                         r2 \in { IF r1.err # "" \/ include_defaults THEN r1
                                  ELSE RemoveFields(r1.heap, l.val, <<"default">>, 1) } }) :
                  r1 \in { IF "$defs" \in Keys(l.heap[l.val.ref])
                           THEN ResolveRefs([ l.heap EXCEPT ![l.val.ref] =
                                                DictPop(l.heap[l.val.ref], "$defs") ],
                                            l.val, Get(l.heap[l.val.ref], "$defs"), 1)
                           ELSE Ok(l.heap) } }) :
           l \in { Load(h, generated) } })

\* The keys that the schemas in anyOf are not permitted to contain.
AnyOfForbidden ==
    << "description", "type", "default", "additionalProperties", "nullable",
       "x-kubernetes-preserve-unknown-fields" >>

\* The body of the loop of StructuralUnion.__get_pydantic_json_schema__ over
\* cls.__types__, from the i-th type on: properties and any_of are the
\* objects the method collects into.
RECURSIVE UnionLoop(_, _, _, _, _)
UnionLoop(h, types, i, properties, any_of) ==
    IF i > Len(types) THEN Ok(h)
    ELSE Only({
      \* union_type_schema = copy.deepcopy(union_type.model_json_schema())
      IF m.err # "" THEN Raise(m.heap, m.err)
      ELSE Only({
        IF "properties" \notin Keys(c.heap[c.val.ref]) THEN Raise(c.heap, "KeyError")
        ELSE Only({
          \* properties.update(copy.deepcopy(union_type_schema["properties"]))
          \* remove_fields(union_type_schema, ...)
          Only({ IF r.err # "" THEN r
                 \* any_of.append(union_type_schema)
                 ELSE UnionLoop([ r.heap EXCEPT ![any_of.ref] =
                                    [ kind  |-> "list",
                                      items |-> Append(r.heap[any_of.ref].items,
                                                       [ key |-> "", val |-> c.val ]) ] ],
                                types, i + 1, properties, any_of) :
                 r \in { RemoveFields([ p.heap EXCEPT ![properties.ref] =
                                          DictUpdate(p.heap[properties.ref],
                                                     p.heap[p.val.ref]) ],
                                      c.val, AnyOfForbidden, 1) } }) :
          p \in { DeepCopy(c.heap, Get(c.heap[c.val.ref], "properties")) } }) :
        c \in { DeepCopy(m.heap, m.val) } }) :
      m \in { ModelJsonSchema(h, types[i], FALSE) } })

\* StructuralUnion.__get_pydantic_json_schema__ for cls.__types__ = types.
UnionJsonSchema(h, types) ==
    LET any_of     == Ref(Len(h) + 1)
        properties == Ref(Len(h) + 2)
    IN  Only({ IF r.err # "" THEN [ heap |-> r.heap, val |-> Lit("null"), err |-> r.err ]
               ELSE [ heap |-> Append(r.heap,
                          [ kind  |-> "dict",
                            items |-> << [ key |-> "type", val |-> Lit("object") ],
                                         [ key |-> "properties", val |-> properties ],
                                         [ key |-> "anyOf", val |-> any_of ] >> ]),
                      val  |-> Ref(Len(r.heap) + 1),
                      err  |-> "" ] :
               r \in { UnionLoop(h \o << [ kind |-> "list", items |-> <<>> ],
                                         [ kind |-> "dict", items |-> <<>> ] >>,
                                 types, 1, properties, any_of) } })

-----------------------------------------------------------------------------
(* The schemas that the validation library generates for model classes     *)

\* The most fields a generated model has.
MaxFields == 2

DefNames == {"D1", "D2"}

RefString(d) == IF d = "D1" THEN "#/$defs/D1" ELSE "#/$defs/D2"

FieldNames == << "a", "b", "c", "d" >>

JRef(d) == JDict(<< <<"$ref", JLit(RefString(d))>> >>)

JType(t) == JDict(<< <<"type", JLit(t)>> >>)

\* The schema generated for a field, by the kind of its annotation:
\*   string    x: str = "d"
\*   optional  x: Optional[str] = None
\*   any       x: schema.Any = Field(description = ...)
\*   model     x: D
\*   described x: D = Field(description = ...), as an allOf of one item
\*   nullable  x: Optional[D] = None
\*   list      x: List[D]
\*   extended  a $ref to D1 next to a keyword that refines it and holds a
\*             $ref to D2 (D1 with additional properties that are D2)
FieldSchema(kind, d) ==
    CASE kind = "string" ->
           JDict(<< <<"default", JLit("d")>>, <<"type", JLit("string")>> >>)
      [] kind = "plain" -> JType("string")
      [] kind = "optional" ->
           JDict(<< <<"anyOf", JList(<< JType("string"), JType("null") >>)>>,
                    <<"default", JLit("null")>> >>)
      [] kind = "any" ->
           JDict(<< <<"description", JLit("any value")>>,
                    <<"x-kubernetes-preserve-unknown-fields", JLit("true")>> >>)
      [] kind = "model" -> JRef(d)
      [] kind = "described" ->
           JDict(<< <<"allOf", JList(<< JRef(d) >>)>>,
                    <<"default", JLit("d")>>,
                    <<"description", JLit("a model")>> >>)
      [] kind = "nullable" ->
           JDict(<< <<"anyOf", JList(<< JRef(d), JType("null") >>)>>,
                    <<"default", JLit("null")>> >>)
      [] kind = "list" ->
           JDict(<< <<"items", JRef(d)>>, <<"type", JLit("array")>> >>)
      [] kind = "extended" ->
           JDict(<< <<"$ref", JLit(RefString("D1"))>>,
                    <<"additionalProperties", JRef("D2")>> >>)

\* The schema of a model class with the given fields, named by names.
ObjectSchemaNamed(names, fields) ==
    << <<"properties",
         JDict([ i \in DOMAIN fields |->
                   << names[i], FieldSchema(fields[i].kind, fields[i].to) >> ])>>,
       <<"type", JLit("object")>> >>

ObjectSchema(fields) == ObjectSchemaNamed(FieldNames, fields)

Field(kind, d) == [ kind |-> kind, to |-> d ]

\* The fields of the root model refer to D1; D1 and D2 have one field each,
\* which may refer to D1 or to D2 (a recursive model).
RootFields ==
    { Field(k, "") : k \in {"string", "optional", "any"} } \cup
    { Field(k, "D1") : k \in {"model", "described", "nullable", "list", "extended"} }

DefFields ==
    [ D1 : { Field("string", ""), Field("optional", ""),
             Field("model", "D2"), Field("model", "D1") },
      D2 : { Field("plain", ""), Field("any", ""), Field("model", "D1") } ]

\* The definitions a field refers to.
FieldRefs(f) ==
    IF f.kind = "extended" THEN {"D1", "D2"}
    ELSE IF f.to = "" THEN {} ELSE {f.to}

\* The definitions that the fields refer to, directly or through the
\* definitions in defs.
RECURSIVE Needed(_, _)
Needed(S, defs) ==
    LET N == S \cup UNION { FieldRefs(defs[d]) : d \in S }
    IN  IF N = S THEN S ELSE Needed(N, defs)

\* A definition refers to itself, directly or through the other one.
RecursiveDefs(fields, defs) ==
    \E d \in Needed(UNION { FieldRefs(fields[i]) : i \in DOMAIN fields }, defs) :
        d \in Needed(FieldRefs(defs[d]), defs)

\* super().model_json_schema(): the "$defs" hold the definitions the model
\* needs, and the key is absent when it needs none.
DefsItems(needed, defs) ==
    IF needed = {"D1"} THEN << <<"D1", JDict(ObjectSchema(<<defs.D1>>))>> >>
    ELSE IF needed = {"D2"} THEN << <<"D2", JDict(ObjectSchema(<<defs.D2>>))>> >>
    ELSE << <<"D1", JDict(ObjectSchema(<<defs.D1>>))>>,
            <<"D2", JDict(ObjectSchema(<<defs.D2>>))>> >>

GeneratedNamed(names, fields, defs) ==
    LET needed == Needed(UNION { FieldRefs(fields[i]) : i \in DOMAIN fields }, defs)
    IN  IF needed = {} THEN JDict(ObjectSchemaNamed(names, fields))
        ELSE JDict(<< <<"$defs", JDict(DefsItems(needed, defs))>> >>
                   \o ObjectSchemaNamed(names, fields))

Generated(fields, defs) == GeneratedNamed(FieldNames, fields, defs)

\* A model class names its fields as it likes: the names of FieldNames, or
\* names that are also keywords of a schema.
KeywordNames == <<"type", "default", "description", "nullable">>

NameLists == { FieldNames, KeywordNames }

FieldLists == UNION { [ 1..n -> RootFields ] : n \in 1..MaxFields }

\* The models of the check: the generated schema, and whether its
\* definitions are recursive.
Models ==
    { [ generated |-> GeneratedNamed(names, fields, defs),
        recursive |-> RecursiveDefs(fields, defs) ] :
      names \in NameLists, fields \in FieldLists, defs \in DefFields }

\* The other member of the structural union that the model is put in.
Partner ==
    JDict(<< <<"description", JLit("partner")>>,
             <<"properties",
               JDict(<< <<"kind",
                          JDict(<< <<"description", JLit("the kind")>>,
                                   <<"type", JLit("string")>> >>)>> >>)>>,
             <<"type", JLit("object")>> >>)


-----------------------------------------------------------------------------
(* Schema generation as a state machine: a model class is drawn, then      *)
(* either its model_json_schema is called, or the JSON schema of the       *)
(* StructuralUnion of the model and Partner is asked for.                  *)

InitSchema ==
    /\ model \in Models
    /\ pc = "generated"
    /\ heap = <<>>
    /\ result = Lit("null")
    /\ err = ""
    /\ server = [ exists |-> FALSE, resourceVersion |-> 1, finalizers |-> <<>>,
                  status |-> "s0" ]
    /\ inst = [ w \in Writers |-> None ]
    /\ call = [ w |-> "", op |-> "", arg |-> "", sent |-> 0, code |-> 0,
                outcome |-> "", tick |-> 0 ]

\* cls.model_json_schema(include_defaults = include_defaults)
CallModelJsonSchema(include_defaults) ==
    /\ pc = "generated"
    /\ \E r \in { ModelJsonSchema(heap, model.generated, include_defaults) } :
           /\ heap' = r.heap
           /\ result' = r.val
           /\ err' = r.err
    /\ pc' = IF include_defaults THEN "schema with defaults" ELSE "schema"
    /\ UNCHANGED <<model, mapperVars>>

\* StructuralUnion[model, Partner].__get_pydantic_json_schema__(...)
CallUnionJsonSchema ==
    /\ pc = "generated"
    /\ \E r \in { UnionJsonSchema(heap, << model.generated, Partner >>) } :
           /\ heap' = r.heap
           /\ result' = r.val
           /\ err' = r.err
    /\ pc' = "union"
    /\ UNCHANGED <<model, mapperVars>>

NextSchema ==
    \/ \E include_defaults \in BOOLEAN : CallModelJsonSchema(include_defaults)
    \/ CallUnionJsonSchema

SpecSchema == InitSchema /\ [][NextSchema]_vars

-----------------------------------------------------------------------------
(* Properties of the schemas                                               *)

\* The dicts that a value reaches and that hold the key.
DictsWithKey(h, v, key) ==
    { n \in Reachable(h, v) : h[n].kind = "dict" /\ key \in Keys(h[n]) }

\* The places of a schema: an object is reached as a schema, as a map from
\* names to schemas (the value of "properties") or as a list of schemas
\* (the value of "anyOf", "allOf" or "oneOf").  What a schema holds under
\* another key ("default", "enum", "description") is data, not a schema.
PlacesUnder(h, place) ==
    LET n    == place[1]
        item == h[n].items
        refs == { i \in DOMAIN item : item[i].val.ref # 0 }
    IN  IF place[2] = "schema" /\ h[n].kind = "dict"
        THEN { << item[i].val.ref, "map" >> :
                 i \in { j \in refs : item[j].key = "properties" } }
             \cup { << item[i].val.ref, "list" >> :
                 i \in { j \in refs : item[j].key \in {"anyOf", "allOf", "oneOf"} } }
             \cup { << item[i].val.ref, "schema" >> :
                 i \in { j \in refs : item[j].key \in {"items", "additionalProperties"} } }
        ELSE IF place[2] = "map" /\ h[n].kind = "dict"
        THEN { << item[i].val.ref, "schema" >> : i \in refs }
        ELSE IF place[2] = "list" /\ h[n].kind = "list"
        THEN { << item[i].val.ref, "schema" >> : i \in refs }
        ELSE {}

RECURSIVE Places(_, _)
Places(h, S) ==
    LET N == S \cup UNION { PlacesUnder(h, p) : p \in S }
    IN  IF N = S THEN S ELSE Places(h, N)

\* The schema nodes of the schema v, at any depth.
SchemaNodes(h, v) ==
    IF v.ref = 0 THEN {}
    ELSE { p[1] : p \in { q \in Places(h, { << v.ref, "schema" >> }) :
                            q[2] = "schema" /\ h[q[1]].kind = "dict" } }

\* The schema nodes of v that hold one of the keys.
NodesWithKeys(h, v, keys) ==
    { n \in SchemaNodes(h, v) : Keys(h[n]) \cap keys # {} }


\* The value under a key of a dict of a document.
TreeKeys(tree) == { tree.items[i][1] : i \in DOMAIN tree.items }

TreeGet(tree, key) ==
    tree.items[CHOOSE i \in DOMAIN tree.items : tree.items[i][1] = key][2]

Returned == pc \in {"schema", "schema with defaults"}

\* C6: for a model whose definitions are not recursive, model_json_schema
\* returns, and no dict of the returned schema, at any depth, has the key
\* "$defs" or the key "$ref".
C6_NoRefLeft ==
    (Returned /\ ~model.recursive) =>
        /\ err = ""
        /\ DictsWithKey(heap, result, "$ref") = {}
        /\ DictsWithKey(heap, result, "$defs") = {}

\* C7: the schema returned with include_defaults false has "default" on no
\* schema node; with include_defaults true every field generated with a
\* "default" still has it.
C7_DefaultsRemoved ==
    /\ (pc = "schema" /\ err = "") =>
          NodesWithKeys(heap, result, {"default"}) = {}
    /\ (pc = "schema with defaults" /\ err = "") =>
          LET fields     == TreeGet(model.generated, "properties").items
              properties == heap[Get(heap[result.ref], "properties").ref]
          IN  \A i \in DOMAIN fields :
                  "default" \in TreeKeys(fields[i][2]) =>
                      "default" \in Keys(heap[Get(properties, fields[i][1]).ref])

\* C8: in the JSON schema of the structural union, no schema node of an
\* entry of "anyOf", at any depth, has one of the keys that the schemas in
\* anyOf are not permitted to contain.
C8_AnyOfClean ==
    (pc = "union" /\ err = "") =>
        LET any_of == heap[Get(heap[result.ref], "anyOf").ref].items
        IN  \A i \in DOMAIN any_of :
                NodesWithKeys(heap, any_of[i].val,
                              { AnyOfForbidden[k] : k \in DOMAIN AnyOfForbidden }) = {}

\* The role of what a place holds under the key: a schema, a map from
\* property names to schemas, a list of schemas, or data.
RoleUnder(h, v, role, key) ==
    IF role = "schema" /\ IsDict(h, v)
    THEN CASE key = "properties" -> "map"
           [] key \in {"anyOf", "allOf", "oneOf"} -> "list"
           [] key \in {"items", "additionalProperties"} -> "schema"
           [] OTHER -> "data"
    ELSE IF (role = "map" /\ IsDict(h, v)) \/ (role = "list" /\ IsList(h, v))
    THEN "schema"
    ELSE "data"

\* The "properties" maps of the schema v, each as the pair of the path that
\* leads to it and the set of the property names it holds.  A step of a
\* path is the key in a dict, the position in a list.
RECURSIVE PropertyNames(_, _, _, _)
PropertyNames(h, v, role, path) ==
    IF v.ref = 0 THEN {}
    ELSE LET item == h[v.ref].items
             step(i) == IF IsDict(h, v) THEN << item[i].key, 0 >> ELSE << "", i >>
         IN  (IF role = "map" /\ IsDict(h, v)
              THEN { << path, Keys(h[v.ref]) >> } ELSE {})
             \cup UNION { IF RoleUnder(h, v, role, item[i].key) = "data" THEN {}
                          ELSE PropertyNames(h, item[i].val,
                                             RoleUnder(h, v, role, item[i].key),
                                             Append(path, step(i))) :
                          i \in DOMAIN item }

\* Every "properties" map of the schema v has the property names that the
\* map at its place has in the generated schema, once its $refs are
\* resolved and before remove_fields is called on it.
NamesKept(h, v, generated) ==
    \A before \in { ModelJsonSchema(<<>>, generated, TRUE) } :
        PropertyNames(h, v, "schema", <<>>) \subseteq
            PropertyNames(before.heap, before.val, "schema", <<>>)

\* C11: remove_fields never removes a field of a model: in the schema that
\* model_json_schema returns, and in every entry of "anyOf" of the schema
\* of the union, each "properties" map has the property names it had
\* before remove_fields was called, whatever the names of the fields are.
C11_PropertyNamesKept ==
    /\ (pc = "schema" /\ err = "") => NamesKept(heap, result, model.generated)
    /\ (pc = "union" /\ err = "") =>
          LET any_of == heap[Get(heap[result.ref], "anyOf").ref].items
              types  == << model.generated, Partner >>
          IN  \A i \in DOMAIN any_of : NamesKept(heap, any_of[i].val, types[i])

\* C10, as claimed: model_json_schema never recurses without bound, for
\* any generated schema, recursive definitions included.
C10_AlwaysTerminates == err # "RecursionError"

\* C10, amended: for a model whose definitions are not recursive,
\* resolve_refs and remove_fields return, in model_json_schema and in the
\* schema of the union alike.
C10_TerminatesWhenNotRecursive ==
    (pc # "generated" /\ ~model.recursive) => err = ""

\* model_json_schema returned for a model that refers to D1 and, through
\* it, to D2: the references are resolved two definitions deep.
C10_Witness ==
    /\ pc = "schema"
    /\ ~model.recursive
    /\ err = ""
    /\ "$defs" \in TreeKeys(model.generated)
    /\ Len(TreeGet(model.generated, "$defs").items) = 2
    /\ DictsWithKey(heap, result, "$ref") = {}


-----------------------------------------------------------------------------
(* Properties of the Mapper                                                *)

\* The step is a call of op by writer w.
Called(w, op) == call'.tick # call.tick /\ call'.w = w /\ call'.op = op

\* The step is a call of op(instance, finalizer) by writer w.
CalledWith(w, op, finalizer) == Called(w, op) /\ call'.arg = finalizer

\* The step is a call by w that issues a replace of the main resource.
CalledSave(w) ==
    \/ Called(w, "save_instance")
    \/ Called(w, "save_instance_status")
    \/ Called(w, "ensure_finalizer")
    \/ Called(w, "remove_finalizer")

\* C1: the replace that save_instance_status issues carries the resource
\* version the in-memory instance holds, and a status write from a stale
\* instance (its resource version is not the stored one) raises and leaves
\* the stored object as it was, whatever the two writers did before.
C1_StaleStatusWriteRejected ==
    [][ \A w \in Writers :
          Called(w, "save_instance_status") =>
            /\ call'.sent = inst[w].resource_version
            /\ (server.exists /\ inst[w].resource_version # server.resourceVersion)
                 => (call'.outcome = "raised" /\ server' = server) ]_vars

\* A stale status write that would have changed the stored status was
\* rejected with 409.
C1_Witness ==
    /\ call.op = "save_instance_status"
    /\ call.code = 409
    /\ inst[call.w].resource_version < server.resourceVersion
    /\ inst[call.w].status # server.status

\* C2: after a successful save the instance holds the resource version of
\* the object the server returned, and with a single writer no write of
\* save_instance, save_instance_status, ensure_finalizer or remove_finalizer
\* is ever answered with 409 (stale resource version).
C2_SingleWriterNeverStale ==
    [][ \A w \in Writers :
          CalledSave(w) =>
            /\ call'.code = 200 =>
                 /\ call'.outcome = "returned"
                 /\ inst'[w].resource_version = server'.resourceVersion
                 /\ server'.resourceVersion # server.resourceVersion
            /\ call'.code # 409 ]_vars

\* The single writer had two writes accepted one after the other.
C2_Witness ==
    /\ call.op = "save_instance_status"
    /\ call.code = 200
    /\ call.sent = 2
    /\ inst[call.w].resource_version = 3

\* C3: after ensure_finalizer(instance, f) returns, f is in the instance's
\* finalizers; when f was there already, no request is issued and neither
\* the instance nor the stored object changes; f is never added a second
\* time; of two calls in a row at most one issues a write.  No step of
\* anybody else changes the finalizers of w's instance.
C3_EnsureFinalizer ==
    [][ \A w \in Writers :
          /\ \A f \in Finalizers :
               CalledWith(w, "ensure_finalizer", f) =>
                 /\ call'.outcome = "returned" => f \in Range(inst'[w].finalizers)
                 /\ f \in Range(inst[w].finalizers) =>
                      /\ call'.code = 0
                      /\ call'.outcome = "returned"
                      /\ inst'[w] = inst[w]
                      /\ server' = server
                 /\ f \notin Range(inst[w].finalizers) =>
                      Count(f, inst'[w].finalizers) = 1
                 /\ Count(f, inst'[w].finalizers) <= Count(f, inst[w].finalizers) + 1
                 /\ (call.w = w /\ call.op = "ensure_finalizer" /\ call.arg = f) =>
                      ~(call.code # 0 /\ call'.code # 0)
          /\ (call'.tick = call.tick \/ call'.w # w) =>
               inst'[w].finalizers = inst[w].finalizers ]_vars

\* ensure_finalizer found f present and returned without a request.
C3_Witness ==
    /\ call.op = "ensure_finalizer"
    /\ call.code = 0
    /\ call.outcome = "returned"
    /\ Count(call.arg, inst[call.w].finalizers) = 1

\* C4: after remove_finalizer(instance, f) returns, f is not in the
\* instance's finalizers, whatever list it started from; when f was absent,
\* no request is issued and the instance is unchanged.
C4_RemoveFinalizer ==
    [][ \A w \in Writers : \A f \in Finalizers :
          CalledWith(w, "remove_finalizer", f) =>
            /\ call'.outcome = "returned" => f \notin Range(inst'[w].finalizers)
            /\ f \notin Range(inst[w].finalizers) =>
                 /\ call'.code = 0
                 /\ inst'[w] = inst[w]
                 /\ server' = server ]_vars

\* C5: fetch returns None exactly when the API answers 404, raises on any
\* other error status, returns the instance validated from the data when
\* the fetch succeeds, and never changes the stored object.
C5_Fetch ==
    [][ \A w \in Writers :
          Called(w, "fetch") =>
            /\ server' = server
            /\ call'.outcome = "None" <=> call'.code = 404
            /\ call'.outcome = "None" => ~inst'[w].held
            /\ call'.code \notin {200, 404} =>
                 (call'.outcome = "raised" /\ inst'[w] = inst[w])
            /\ call'.code = 200 =>
                 /\ call'.outcome = "returned"
                 /\ inst'[w].held
                 /\ inst'[w].resource_version = server.resourceVersion
                 /\ inst'[w].finalizers = server.finalizers
                 /\ inst'[w].status = server.status ]_vars

\* A fetch of the deleted object returned None to a writer that held an
\* instance of it before.
C5_Witness ==
    /\ call.op = "fetch"
    /\ call.code = 404
    /\ call.outcome = "None"
    /\ ~server.exists
    /\ ~inst[call.w].held

\* C9: a failed write inside ensure_finalizer or remove_finalizer raises
\* and leaves the in-memory change in place (f added, respectively f
\* gone), and the same call made again on that instance issues no request
\* and leaves the stored object as it is.
C9_FailedFinalizerWrite ==
    [][ \A w \in Writers : \A f \in Finalizers :
          /\ (CalledWith(w, "ensure_finalizer", f) /\ call'.code \notin {0, 200}) =>
               /\ call'.outcome = "raised"
               /\ f \in Range(inst'[w].finalizers)
               /\ server' = server
          /\ (CalledWith(w, "remove_finalizer", f) /\ call'.code \notin {0, 200}) =>
               /\ call'.outcome = "raised"
               /\ f \notin Range(inst'[w].finalizers)
               /\ server' = server
          /\ ( /\ call.w = w /\ call.arg = f /\ call.outcome = "raised"
               /\ call.op \in {"ensure_finalizer", "remove_finalizer"}
               /\ CalledWith(w, call.op, f) ) =>
               /\ call'.code = 0
               /\ server' = server ]_vars

=============================================================================
